---- MODULE Spec2Model ----
(***************************************************************************)
(* dem2terrainrgb.py: the orchestrator that runs gdalwarp, rio rgbify and  *)
(* gdal2tiles.py in sequence and then re-encodes the PNG tiles as WebP,    *)
(* and serve_tiles.py: the static tile server that adds CORS headers.      *)
(*                                                                         *)
(* A path or a file name is a sequence of one-character strings, so that   *)
(* os.path.basename, os.path.splitext, str.replace and glob act on the     *)
(* characters as they do in Python.  The filesystem is the pair            *)
(* (files, dirs): files maps each existing regular file's path to its      *)
(* content, dirs is the set of existing directories.  The empty path is    *)
(* the current working directory.                                          *)
(*                                                                         *)
(* Each method is two steps: the Python code up to the start of the        *)
(* subprocess, and the subprocess's exit, at which the tool reads its      *)
(* input and writes its output.  A tool that exits non-zero is taken to    *)
(* leave no file behind.                                                   *)
(***************************************************************************)
EXTENDS Integers, Sequences, FiniteSets, TLC

VARIABLES
    args,          \* the parsed command line: dem, dist, tmp, webp, remove_png
    env,           \* what the run cannot see: the tools' behaviour and how --dem was built
    files,         \* path -> content of every regular file
    dirs,          \* the directories that exist
    madeBy,        \* path -> the run that wrote the file (0: it was there before any run)
    removedBy,     \* path of a vanished file -> the run that removed it and the run that had made it
    pc,            \* run -> where its __main__ stands
    filled_dem,    \* run -> the value fill_nodata returned
    rgbified_dem,  \* run -> the value rgbify returned
    tool,          \* run -> the command line of the subprocess it started last
    found,         \* run -> the paths glob.glob returned
    queue,         \* run -> the paths png2webp has still to process, the current one first
    log,           \* run -> the subprocess invocations and exits, in order
    cleared,       \* run -> the log as it stood when shutil.rmtree(dist) ran (<<>>: it did not)
    snap,          \* the filesystem as the first run left it
    served,        \* tile server: the files under the served root
    hreq,          \* tile server: the request being handled
    hpc,           \* tile server: where the handler stands
    hbuf,          \* tile server: the handler's _headers_buffer
    wire,          \* tile server: the lines written to the socket for this request
    nreq           \* tile server: the requests handled so far

pipeVars == <<args, env, files, dirs, madeBy, removedBy, pc, filled_dem,
              rgbified_dem, tool, found, queue, log, cleared, snap>>
srvVars == <<served, hreq, hpc, hbuf, wire, nreq>>
vars == <<args, env, files, dirs, madeBy, removedBy, pc, filled_dem,
          rgbified_dem, tool, found, queue, log, cleared, snap,
          served, hreq, hpc, hbuf, wire, nreq>>

----------------------------------------------------------------------------
(* Bounds *)

\* The tiling tool writes tiles 5/3/1.png .. 5/3/MaxTiles.png.
MaxTiles == 3

\* The tile server handles at most this many requests.
MaxRequests == 2

----------------------------------------------------------------------------
(* Strings *)

Slash == <<"/">>
DotPng == <<".", "p", "n", "g">>
DotWebp == <<".", "w", "e", "b", "p">>
DotTif == <<".", "t", "i", "f">>
WithoutNodataTif ==
    <<"_", "w", "i", "t", "h", "o", "u", "t", "_", "n", "o", "d", "a", "t", "a", ".", "t", "i", "f">>
RgbTif == <<"_", "R", "G", "B", ".", "t", "i", "f">>
Digits == <<"1", "2", "3", "4", "5", "6", "7", "8", "9">>

StartsWith(s, p) == Len(p) <= Len(s) /\ SubSeq(s, 1, Len(p)) = p
EndsWith(s, e) == Len(e) <= Len(s) /\ SubSeq(s, Len(s) - Len(e) + 1, Len(s)) = e

\* str.rfind, 1-based; 0 when c does not occur.
RFind(s, c) ==
    LET at == {i \in 1..Len(s) : s[i] = c}
    IN  IF at = {} THEN 0 ELSE CHOOSE i \in at : \A j \in at : j <= i

\* os.path.basename and os.path.dirname (posixpath).
Basename(p) == SubSeq(p, RFind(p, "/") + 1, Len(p))
Dirname(p) == SubSeq(p, 1, RFind(p, "/") - 1)

\* os.path.splitext(p)[0]: cut at the last dot of the last component, unless
\* that component has only dots before it (a leading dot starts no extension).
SplitextRoot(p) ==
    LET sep == RFind(p, "/")
        dot == RFind(p, ".")
    IN  IF dot > sep /\ \E i \in (sep + 1)..(dot - 1) : p[i] # "."
        THEN SubSeq(p, 1, dot - 1)
        ELSE p

\* str.replace(old, new): every non-overlapping occurrence, left to right.
RECURSIVE StrReplace(_, _, _)
StrReplace(s, old, new) ==
    IF Len(s) < Len(old) THEN s
    ELSE IF SubSeq(s, 1, Len(old)) = old
         THEN new \o StrReplace(SubSeq(s, Len(old) + 1, Len(s)), old, new)
         ELSE <<s[1]>> \o StrReplace(Tail(s), old, new)

----------------------------------------------------------------------------
(* Filesystem *)

Under(p, d) == StartsWith(p, d \o Slash)

\* os.path.exists
Exists(p) == p \in DOMAIN files \/ p \in dirs
DirExists(d) == d = <<>> \/ d \in dirs

\* os.makedirs(d): d and every missing ancestor.
Makedirs(ds, d) ==
    ds \cup {d} \cup {SubSeq(d, 1, i - 1) : i \in {k \in 2..Len(d) : d[k] = "/"}}

Without(fs, gone) == [p \in DOMAIN fs \ gone |-> fs[p]]
WriteAll(fs, new) ==
    [p \in DOMAIN fs \cup DOMAIN new |-> IF p \in DOMAIN new THEN new[p] ELSE fs[p]]
WriteOne(fs, p, c) == WriteAll(fs, [q \in {p} |-> c])

\* if os.path.exists(p): os.remove(p)
RemoveKeepingFile(fs, p) == fs
RemoveIfExists(fs, p) == Without(fs, {p})

\* if os.path.exists(d): shutil.rmtree(d), on the files and on the directories
RmtreeKeepingFiles(fs, d) == fs
RmtreeFiles(fs, d) == Without(fs, {p \in DOMAIN fs : Under(p, d)})
RmtreeDirs(ds, d) == {x \in ds : x # d /\ ~Under(x, d)}

\* Who wrote and who removed what, after run r's step turned files into files'.
Account(r, written) ==
    /\ madeBy' = [p \in DOMAIN files' |-> IF p \in written THEN r ELSE madeBy[p]]
    /\ removedBy' = [p \in (DOMAIN removedBy \cup DOMAIN files) \ DOMAIN files' |->
                        IF p \in DOMAIN files THEN [by |-> r, made |-> madeBy[p]]
                        ELSE removedBy[p]]

----------------------------------------------------------------------------
(* The external tools and the image library: functions of their input file *)

DemData == <<"dem">>
Stale == <<"stale">>
Gdalwarp(c) == <<"warp">> \o c
RioRgbify(c) == <<"rgb">> \o c
Viewer == <<"viewer">>
\* Tile i of the pyramid; the tool writes tile env.badTile as a PNG that
\* the image library cannot decode.
TileData(i, c) == <<(IF i = env.badTile THEN "corrupt" ELSE "tile"), Digits[i]>> \o c
Decodable(c) == c[1] = "tile"
WebpOf(c) == <<"webp">> \o c

TileRel(i) == <<"5", "/", "3", "/", Digits[i]>> \o DotPng
TilePath(d, i) == d \o Slash \o TileRel(i)
TileDir(d) == d \o <<"/", "5", "/", "3">>
ViewerPath(d) == d \o <<"/", "v", ".", "h", "t", "m", "l">>
OldTilePath(d) == d \o <<"/", "5", "/", "3", "/", "9">> \o DotPng
OldWebpPath(d) == d \o <<"/", "5", "/", "3", "/", "1">> \o DotWebp

Runs == {1, 2}
Other(r) == 3 - r
ToolPcs == {"fill_tool", "rgb_tool", "tiles_tool"}
NoTool == [name |-> "none", in |-> <<>>, out |-> <<>>]

----------------------------------------------------------------------------
(* Dem2TerrainRgb *)

\* filename = os.path.splitext(os.path.basename(self.dem))[0]
Filename(a) == SplitextRoot(Basename(a.dem))
FilledFile(a) == a.tmp \o Slash \o Filename(a) \o WithoutNodataTif
RgbifiedDem(a) == a.tmp \o Slash \o Filename(a) \o RgbTif

\* subprocess.check_output: returns on exit status 0, raises CalledProcessError
\* otherwise; nothing catches it, so the interpreter exits with status 1.
CheckOutputIgnoringStatus(ok, next) == next
CheckOutput(ok, next) == IF ok THEN next ELSE "failed"

\* The subprocess exits 0 iff the tool works in this environment, its input
\* file is there and the directory of its output is there.
ToolSucceeds(r) ==
    /\ tool[r].name # env.broken
    /\ tool[r].in \in DOMAIN files
    /\ DirExists(Dirname(tool[r].out))

LogEvent(r, e) == log' = [log EXCEPT ![r] = Append(@, e)]

fill_nodata(r) ==
    /\ pc[r] = "start"
    /\ LET filled_file == FilledFile(args)
       IN  /\ dirs' = IF Exists(args.tmp) THEN dirs ELSE Makedirs(dirs, args.tmp)
           /\ files' = RemoveIfExists(files, filled_file)
           /\ Account(r, {})
           /\ tool' = [tool EXCEPT ![r] =
                          [name |-> "gdalwarp", in |-> args.dem, out |-> filled_file]]
    /\ LogEvent(r, "gdalwarp")
    /\ pc' = [pc EXCEPT ![r] = "fill_tool"]
    /\ UNCHANGED <<args, env, filled_dem, rgbified_dem, found, queue, cleared, snap>>

fill_nodata_returns(r) ==
    /\ pc[r] = "fill_tool"
    /\ LET ok == ToolSucceeds(r)
       IN  /\ files' = IF ok THEN WriteOne(files, tool[r].out, Gdalwarp(files[tool[r].in]))
                             ELSE files
           /\ Account(r, IF ok THEN {tool[r].out} ELSE {})
           /\ LogEvent(r, IF ok THEN "ok" ELSE "fail")
           /\ pc' = [pc EXCEPT ![r] = CheckOutput(ok, "filled")]
           /\ filled_dem' = IF ok THEN [filled_dem EXCEPT ![r] = tool[r].out] ELSE filled_dem
    /\ UNCHANGED <<args, env, dirs, rgbified_dem, tool, found, queue, cleared, snap>>

\* The file rgbify passes to rio as its input: its parameter filled_dem.
RgbifyInputDem(r) == args.dem
RgbifyInput(r) == filled_dem[r]

\* The file rgbify deletes before it starts the tool.
RgbifyRemovesInput(r) == filled_dem[r]
RgbifyRemoves(r) == RgbifiedDem(args)

rgbify(r) ==
    /\ pc[r] = "filled"
    /\ LET rgbified == RgbifiedDem(args)
       IN  /\ files' = RemoveIfExists(files, RgbifyRemoves(r))
           /\ Account(r, {})
           /\ tool' = [tool EXCEPT ![r] =
                          [name |-> "rio", in |-> RgbifyInput(r), out |-> rgbified]]
    /\ LogEvent(r, "rio")
    /\ pc' = [pc EXCEPT ![r] = "rgb_tool"]
    /\ UNCHANGED <<args, env, dirs, filled_dem, rgbified_dem, found, queue, cleared, snap>>

rgbify_returns(r) ==
    /\ pc[r] = "rgb_tool"
    /\ LET ok == ToolSucceeds(r)
       IN  /\ files' = IF ok THEN WriteOne(files, tool[r].out, RioRgbify(files[tool[r].in]))
                             ELSE files
           /\ Account(r, IF ok THEN {tool[r].out} ELSE {})
           /\ LogEvent(r, IF ok THEN "ok" ELSE "fail")
           /\ pc' = [pc EXCEPT ![r] = CheckOutput(ok, "rgbified")]
           /\ rgbified_dem' = IF ok THEN [rgbified_dem EXCEPT ![r] = tool[r].out]
                                    ELSE rgbified_dem
    /\ UNCHANGED <<args, env, dirs, filled_dem, tool, found, queue, cleared, snap>>

gdal2tiles(r) ==
    /\ pc[r] = "rgbified"
    /\ IF Exists(args.dist)
       THEN /\ files' = RmtreeFiles(files, args.dist)
            /\ dirs' = RmtreeDirs(dirs, args.dist)
            /\ cleared' = [cleared EXCEPT ![r] = log[r]]
       ELSE UNCHANGED <<files, dirs, cleared>>
    /\ Account(r, {})
    /\ tool' = [tool EXCEPT ![r] =
                   [name |-> "gdal2tiles", in |-> rgbified_dem[r], out |-> args.dist]]
    /\ LogEvent(r, "gdal2tiles")
    /\ pc' = [pc EXCEPT ![r] = "tiles_tool"]
    /\ UNCHANGED <<args, env, filled_dem, rgbified_dem, found, queue, snap>>

\* What gdal2tiles.py writes under its output directory d from a raster c.
Pyramid(d, c) ==
    [p \in {TilePath(d, i) : i \in 1..MaxTiles} \cup {ViewerPath(d)} |->
        IF p = ViewerPath(d) THEN Viewer
        ELSE TileData(CHOOSE i \in 1..MaxTiles : p = TilePath(d, i), c)]

gdal2tiles_returns(r) ==
    /\ pc[r] = "tiles_tool"
    /\ LET ok == ToolSucceeds(r)
           new == Pyramid(tool[r].out, files[tool[r].in])
       IN  /\ files' = IF ok THEN WriteAll(files, new) ELSE files
           /\ dirs' = IF ok THEN Makedirs(dirs, TileDir(tool[r].out)) ELSE dirs
           /\ Account(r, IF ok THEN DOMAIN new ELSE {})
           /\ LogEvent(r, IF ok THEN "ok" ELSE "fail")
           /\ pc' = [pc EXCEPT ![r] = CheckOutput(ok, "tiled")]
    /\ UNCHANGED <<args, env, filled_dem, rgbified_dem, tool, found, queue, cleared, snap>>

\* glob.glob(dist + '/**/*.png', recursive=True): every path under dist whose
\* last component ends in .png, no component below dist starting with a dot.
Glob(d) ==
    {p \in DOMAIN files \cup dirs :
        /\ Under(p, d)
        /\ EndsWith(p, DotPng)
        /\ \A i \in (Len(d) + 1)..(Len(p) - 1) : p[i] = "/" => p[i + 1] # "."}

\* The matches in the order the directory lists them.
InListingOrder(S) == SelectSeq(env.listing, LAMBDA p : p \in S)

\* file.replace('.png', '.webp')
WebpName(file) == StrReplace(file, DotPng, DotWebp)

\* if args.webp: dem2terrain.png2webp(args.remove_png), up to the loop
png2webp(r) ==
    /\ pc[r] = "tiled"
    /\ IF args.webp
       THEN /\ found' = [found EXCEPT ![r] = Glob(args.dist)]
            /\ queue' = [queue EXCEPT ![r] = InListingOrder(Glob(args.dist))]
            /\ LogEvent(r, "png2webp")
            /\ pc' = [pc EXCEPT ![r] =
                         IF InListingOrder(Glob(args.dist)) = <<>> THEN "done" ELSE "webp"]
       ELSE /\ pc' = [pc EXCEPT ![r] = "done"]
            /\ UNCHANGED <<found, queue, log>>
    /\ UNCHANGED <<args, env, files, dirs, madeBy, removedBy, filled_dem, rgbified_dem,
                   tool, cleared, snap>>

\* One iteration of png2webp's loop.  Image.open and img.save raise when the
\* file is gone or is no image, or when the directory of the target is
\* missing; the exception leaves the loop and the interpreter.
png2webp_file_removing_first(r) ==
    /\ pc[r] = "webp"
    /\ LET file == Head(queue[r])
           target == WebpName(file)
           ok == /\ file \in DOMAIN files
                 /\ Decodable(files[file])
                 /\ DirExists(Dirname(target))
           saved == IF ok THEN WriteOne(files, target, WebpOf(files[file])) ELSE files
       IN  /\ files' = IF args.remove_png THEN Without(saved, {file}) ELSE saved
           /\ Account(r, IF ok THEN {target} ELSE {})
           /\ queue' = [queue EXCEPT ![r] = IF ok THEN Tail(@) ELSE @]
           /\ pc' = [pc EXCEPT ![r] =
                        IF ~ok THEN "failed"
                        ELSE IF Tail(queue[r]) = <<>> THEN "done" ELSE "webp"]
    /\ UNCHANGED <<args, env, dirs, filled_dem, rgbified_dem, tool, found, log, cleared, snap>>

png2webp_file(r) ==
    /\ pc[r] = "webp"
    /\ LET file == Head(queue[r])
           target == WebpName(file)
           ok == /\ file \in DOMAIN files
                 /\ Decodable(files[file])
                 /\ DirExists(Dirname(target))
           saved == IF ok THEN WriteOne(files, target, WebpOf(files[file])) ELSE files
       IN  /\ files' = IF ok /\ args.remove_png THEN Without(saved, {file}) ELSE saved
           /\ Account(r, IF ok THEN {target} ELSE {})
           /\ queue' = [queue EXCEPT ![r] = IF ok THEN Tail(@) ELSE @]
           /\ pc' = [pc EXCEPT ![r] =
                        IF ~ok THEN "failed"
                        ELSE IF Tail(queue[r]) = <<>> THEN "done" ELSE "webp"]
    /\ UNCHANGED <<args, env, dirs, filled_dem, rgbified_dem, tool, found, log, cleared, snap>>

\* The same command line is run again once the first process has exited.
StartSecond ==
    /\ pc[1] \in {"done", "failed"}
    /\ pc[2] = "idle"
    /\ pc' = [pc EXCEPT ![2] = "start"]
    /\ snap' = [files |-> files, dirs |-> dirs]
    /\ UNCHANGED <<args, env, files, dirs, madeBy, removedBy, filled_dem, rgbified_dem,
                   tool, found, queue, log, cleared>>

----------------------------------------------------------------------------
(* Initial states of the orchestrator *)

DistNames == {<<"o">>, <<"o", ".", "p", "n", "g">>}
SrcDir == <<"s">>
\* --dem's file name as a stem and an extension: d, d.tif, d.x.tif
DemNames == {[stem |-> <<"d">>, ext |-> <<>>],
             [stem |-> <<"d">>, ext |-> DotTif],
             [stem |-> <<"d", ".", "x">>, ext |-> DotTif]}
ToolNames == {"gdalwarp", "rio", "gdal2tiles"}

\* The directory listing: the PNG names the model knows, in one order or the other.
Listing(d, rev) ==
    LET n == MaxTiles + 1
        asc == [i \in 1..n |-> IF i <= MaxTiles THEN TilePath(d, i) ELSE OldTilePath(d)]
    IN  IF rev THEN [i \in 1..n |-> asc[n + 1 - i]] ELSE asc

\* Files and directories before the first run: the DEM; with staleTmp the two
\* intermediates of an earlier run; with staleDist the tiles of an earlier
\* run made with --webp; with shadow a directory tree beside dist whose name
\* is dist's with .png turned into .webp.
InitFiles(a, staleTmp, staleDist) ==
    [p \in {a.dem}
        \cup (IF staleTmp THEN {FilledFile(a), RgbifiedDem(a)} ELSE {})
        \cup (IF staleDist THEN {TilePath(a.dist, 1), OldTilePath(a.dist), OldWebpPath(a.dist)}
              ELSE {})
     |-> IF p = a.dem THEN DemData ELSE Stale]

InitDirs(a, staleTmp, staleDist, shadow) ==
    LET d1 == Makedirs({}, Dirname(a.dem))
        d2 == IF staleTmp THEN Makedirs(d1, a.tmp) ELSE d1
        d3 == IF staleDist THEN Makedirs(d2, TileDir(a.dist)) ELSE d2
    IN  IF shadow THEN Makedirs(d3, TileDir(WebpName(a.dist))) ELSE d3

InitPipeline(a, e, f0, d0) ==
    /\ args = a
    /\ env = e
    /\ files = f0
    /\ dirs = d0
    /\ madeBy = [p \in DOMAIN f0 |-> 0]
    /\ removedBy = [p \in {} |-> 0]
    /\ filled_dem = [r \in Runs |-> <<>>]
    /\ rgbified_dem = [r \in Runs |-> <<>>]
    /\ tool = [r \in Runs |-> NoTool]
    /\ found = [r \in Runs |-> {}]
    /\ queue = [r \in Runs |-> <<>>]
    /\ log = [r \in Runs |-> <<>>]
    /\ cleared = [r \in Runs |-> <<>>]
    /\ snap = [files |-> f0, dirs |-> d0]

----------------------------------------------------------------------------
(* TileRequestHandler: one request at a time, HTTP/1.x *)

ServedFiles == {"/5/3/1.png", "/5/3/2.png"}
ServedDir == "/5/3"
RequestPaths == ServedFiles \cup {ServedDir}
Methods == {"GET", "HEAD", "POST"}
AllowOrigin == "Access-Control-Allow-Origin: *"
AllowMethods == "Access-Control-Allow-Methods: GET"
BlankLine == ""

\* The status SimpleHTTPRequestHandler answers with: 501 for a method it has no
\* do_ method for, 301 for a directory asked for without its trailing slash,
\* 200 for a file that opens, 404 otherwise.
StatusOf(req) ==
    IF req.method \notin {"GET", "HEAD"} THEN "501"
    ELSE IF req.path = ServedDir /\ served # {} THEN "301"
    ELSE IF req.path \in served THEN "200"
    ELSE "404"

ServerIdle ==
    /\ served = {}
    /\ hreq = [method |-> "none", path |-> ""]
    /\ hpc = "off"
    /\ hbuf = <<>>
    /\ wire = <<>>
    /\ nreq = 0

\* handle_one_request: a request line is read; a new handler starts with an
\* empty _headers_buffer.
ReceiveRequest ==
    /\ hpc = "idle"
    /\ nreq < MaxRequests
    /\ \E m \in Methods, p \in RequestPaths : hreq' = [method |-> m, path |-> p]
    /\ hbuf' = <<>>
    /\ wire' = <<>>
    /\ hpc' = "respond"
    /\ UNCHANGED <<served, nreq>>

\* send_response (status line, Server, Date) and the entity headers that
\* send_head, or send_error, adds with send_header: all go to the buffer.
SendResponse ==
    /\ hpc = "respond"
    /\ hbuf' = hbuf \o <<"HTTP/1.0 " \o StatusOf(hreq), "Server", "Date">>
                    \o (CASE StatusOf(hreq) = "200" -> <<"Content-type", "Content-Length">>
                          [] StatusOf(hreq) = "301" -> <<"Location", "Content-Length">>
                          [] OTHER -> <<"Connection: close", "Content-Type", "Content-Length">>)
    /\ hpc' = "end_headers"
    /\ UNCHANGED <<served, hreq, wire, nreq>>

\* BaseHTTPRequestHandler.end_headers: the blank line ends the header block and
\* flush_headers writes the buffer to the socket and empties it.
BaseEndHeaders(buf) == [sent |-> buf \o <<BlankLine>>, left |-> <<>>]

\* TileRequestHandler.end_headers
end_headers_after_flush(buf) ==
    [sent |-> BaseEndHeaders(buf).sent,
     left |-> BaseEndHeaders(buf).left \o <<AllowOrigin, AllowMethods>>]
end_headers(buf) == BaseEndHeaders(buf \o <<AllowOrigin, AllowMethods>>)

CallEndHeaders ==
    /\ hpc = "end_headers"
    /\ wire' = wire \o end_headers(hbuf).sent
    /\ hbuf' = end_headers(hbuf).left
    /\ hpc' = "body"
    /\ UNCHANGED <<served, hreq, nreq>>

\* The body is copied (GET of a file, or an error page) and the connection closed.
FinishRequest ==
    /\ hpc = "body"
    /\ nreq' = nreq + 1
    /\ hpc' = "idle"
    /\ UNCHANGED <<served, hreq, hbuf, wire>>

----------------------------------------------------------------------------
(* Specifications *)

PipelineIdle ==
    /\ InitPipeline([dem |-> <<>>, dist |-> <<>>, tmp |-> <<>>, webp |-> FALSE,
                     remove_png |-> FALSE],
                    [stem |-> <<>>, broken |-> "none", badTile |-> 0, listing |-> <<>>],
                    [p \in {} |-> Stale], {})
    /\ pc = [r \in Runs |-> "idle"]

\* One command line, run once and then once more.
Init ==
    /\ \E dist \in DistNames, tmpUnderDist \in BOOLEAN, demAt \in {"apart", "dist", "tmp"},
          name \in DemNames, webp \in BOOLEAN, remove_png \in BOOLEAN,
          staleTmp \in BOOLEAN, staleDist \in BOOLEAN, shadow \in BOOLEAN,
          broken \in ToolNames \cup {"none"}, badTile \in 0..MaxTiles, rev \in BOOLEAN :
        LET tmp == IF tmpUnderDist THEN dist \o <<"/", "t">> ELSE <<"t">>
            demDir == CASE demAt = "apart" -> SrcDir
                        [] demAt = "dist" -> dist
                        [] demAt = "tmp" -> tmp
            a == [dem |-> demDir \o Slash \o name.stem \o name.ext, dist |-> dist,
                  tmp |-> tmp, webp |-> webp, remove_png |-> remove_png]
            e == [stem |-> name.stem, broken |-> broken, badTile |-> badTile,
                  listing |-> Listing(dist, rev)]
        IN  /\ shadow => dist # WebpName(dist)
            /\ InitPipeline(a, e, InitFiles(a, staleTmp, staleDist),
                            InitDirs(a, staleTmp, staleDist, shadow))
    /\ pc = [r \in Runs |-> IF r = 1 THEN "start" ELSE "idle"]
    /\ ServerIdle

Next ==
    \/ \E r \in Runs : fill_nodata(r) /\ UNCHANGED srvVars
    \/ \E r \in Runs : fill_nodata_returns(r) /\ UNCHANGED srvVars
    \/ \E r \in Runs : rgbify(r) /\ UNCHANGED srvVars
    \/ \E r \in Runs : rgbify_returns(r) /\ UNCHANGED srvVars
    \/ \E r \in Runs : gdal2tiles(r) /\ UNCHANGED srvVars
    \/ \E r \in Runs : gdal2tiles_returns(r) /\ UNCHANGED srvVars
    \/ \E r \in Runs : png2webp(r) /\ UNCHANGED srvVars
    \/ \E r \in Runs : png2webp_file(r) /\ UNCHANGED srvVars
    \/ StartSecond /\ UNCHANGED srvVars

Spec == Init /\ [][Next]_vars

\* The same command line started twice at once, on ordinary paths: the DEM,
\* the work directory and the destination apart from each other.
InitConc ==
    /\ \E webp \in BOOLEAN, remove_png \in BOOLEAN, rev \in BOOLEAN, staleDist \in BOOLEAN :
        LET a == [dem |-> SrcDir \o <<"/", "d">> \o DotTif, dist |-> <<"o">>, tmp |-> <<"t">>,
                  webp |-> webp, remove_png |-> remove_png]
            e == [stem |-> <<"d">>, broken |-> "none", badTile |-> 0,
                  listing |-> Listing(<<"o">>, rev)]
        IN  InitPipeline(a, e, InitFiles(a, FALSE, staleDist),
                         InitDirs(a, FALSE, staleDist, FALSE))
    /\ pc = [r \in Runs |-> "start"]
    /\ ServerIdle

NextConc ==
    \/ \E r \in Runs : fill_nodata(r) /\ UNCHANGED srvVars
    \/ \E r \in Runs : fill_nodata_returns(r) /\ UNCHANGED srvVars
    \/ \E r \in Runs : rgbify(r) /\ UNCHANGED srvVars
    \/ \E r \in Runs : rgbify_returns(r) /\ UNCHANGED srvVars
    \/ \E r \in Runs : gdal2tiles(r) /\ UNCHANGED srvVars
    \/ \E r \in Runs : gdal2tiles_returns(r) /\ UNCHANGED srvVars
    \/ \E r \in Runs : png2webp(r) /\ UNCHANGED srvVars
    \/ \E r \in Runs : png2webp_file(r) /\ UNCHANGED srvVars

SpecConc == InitConc /\ [][NextConc]_vars

\* The tile server started over a directory of tiles.
InitServer ==
    /\ PipelineIdle
    /\ served \in SUBSET ServedFiles
    /\ hreq = [method |-> "none", path |-> ""]
    /\ hpc = "idle"
    /\ hbuf = <<>>
    /\ wire = <<>>
    /\ nreq = 0

NextServer ==
    \/ ReceiveRequest /\ UNCHANGED pipeVars
    \/ SendResponse /\ UNCHANGED pipeVars
    \/ CallEndHeaders /\ UNCHANGED pipeVars
    \/ FinishRequest /\ UNCHANGED pipeVars

SpecServer == InitServer /\ [][NextServer]_vars

----------------------------------------------------------------------------
(* Properties *)

\* Run r is the latest run: nothing has touched the filesystem after it.
Latest(r) == r = 2 \/ pc[2] = "idle"

\* The subprocess events of a run in which nothing fails.
FullLog == <<"gdalwarp", "ok", "rio", "ok", "gdal2tiles", "ok", "png2webp">>

\* png2webp of run r raised in the middle of its loop.
RaisedInLoop(r) == pc[r] = "failed" /\ queue[r] # <<>>

\* The paths run r's png2webp had converted before the current one.
Earlier(r) == found[r] \ {queue[r][i] : i \in 1..Len(queue[r])}

\* C1: once a tool of a run has exited non-zero, that event is the last of
\* the run: no tool is started after it (neither a later stage's nor the same
\* one again), png2webp is not entered, and the process has ended in failure.
C1_FailureAborts ==
    \A r \in Runs : \A i \in 1..Len(log[r]) :
        log[r][i] = "fail" =>
            /\ i = Len(log[r])
            /\ pc[r] = "failed"
            /\ found[r] = {}
            /\ queue[r] = <<>>

\* C1 witness: with --webp given, rio has exited non-zero after gdalwarp succeeded.
C1_Witness ==
    \E r \in Runs :
        /\ args.webp
        /\ log[r] = <<"gdalwarp", "ok", "rio", "fail">>
        /\ pc[r] = "failed"

\* C2: the source DEM exists with its original content in every state of
\* every run, whatever --dem, --dist and --tmp are.
C2_DemNeverTouched == args.dem \in DOMAIN files /\ files[args.dem] = DemData

\* C3: the tools run in the one order gdalwarp, rio, gdal2tiles, png2webp,
\* each started only after the one before it exited with success and none
\* twice; rio is given the path fill_nodata returned and gdal2tiles the path
\* rgbify returned; png2webp is entered only with --webp; and at most one
\* subprocess is running at any time.
C3_LinearPipeline ==
    /\ \A r \in Runs :
        /\ Len(log[r]) <= Len(FullLog)
        /\ \A i \in 1..Len(log[r]) :
              \/ log[r][i] = FullLog[i]
              \/ i = Len(log[r]) /\ FullLog[i] = "ok" /\ log[r][i] = "fail"
        /\ Len(log[r]) = Len(FullLog) => args.webp
        /\ (pc[r] \in ToolPcs) = (log[r] # <<>> /\ log[r][Len(log[r])] \in ToolNames)
        /\ pc[r] = "rgb_tool" =>
              /\ tool[r].name = "rio"
              /\ tool[r].in = filled_dem[r]
              /\ filled_dem[r] = FilledFile(args)
        /\ pc[r] = "tiles_tool" =>
              /\ tool[r].name = "gdal2tiles"
              /\ tool[r].in = rgbified_dem[r]
              /\ rgbified_dem[r] = RgbifiedDem(args)
    /\ Cardinality({r \in Runs : pc[r] \in ToolPcs}) <= 1

\* C3 witness: a run with --webp went through all four stages.
C3_Witness == \E r \in Runs : pc[r] = "done" /\ log[r] = FullLog /\ found[r] # {}

\* C4: shutil.rmtree(dist) runs only between rio's successful exit and the
\* start of gdal2tiles; when gdal2tiles is started nothing exists under dist;
\* and once it has succeeded every file under dist was written by this run.
C4_DistReplaced ==
    \A r \in Runs :
        /\ cleared[r] \in {<<>>, SubSeq(FullLog, 1, 4)}
        /\ (Latest(r) /\ pc[r] = "tiles_tool") =>
              /\ args.dist \notin dirs
              /\ \A p \in DOMAIN files : ~Under(p, args.dist)
        /\ (Latest(r) /\ (pc[r] \in {"tiled", "webp", "done"} \/ RaisedInLoop(r))) =>
              \A p \in DOMAIN files : Under(p, args.dist) => madeBy[p] = r

\* C4 witness: the second run, with --webp, is done; the first had left PNG
\* and WebP tiles under dist, and the second deleted them.
C4_Witness ==
    /\ pc[2] = "done"
    /\ args.webp
    /\ cleared[2] # <<>>
    /\ \E p \in DOMAIN snap.files : Under(p, args.dist) /\ EndsWith(p, DotWebp)
    /\ \E p \in DOMAIN files : Under(p, args.dist) /\ EndsWith(p, DotWebp)

\* The two derived paths, from the way --dem was put together.
ExpectedFilled == args.tmp \o Slash \o env.stem \o WithoutNodataTif
ExpectedRgb == args.tmp \o Slash \o env.stem \o RgbTif

\* C5: gdalwarp's output path is tmp/stem_without_nodata.tif and rio's is
\* tmp/stem_RGB.tif; the work directory exists while gdalwarp runs; no file
\* exists at a tool's output path when the tool is started; and the file a
\* successful stage returns was written by this run.
C5_IntermediatesRegenerated ==
    \A r \in Runs :
        /\ pc[r] = "fill_tool" =>
              /\ tool[r].out = ExpectedFilled
              /\ args.tmp \in dirs
              /\ tool[r].out \notin DOMAIN files
        /\ pc[r] = "rgb_tool" =>
              /\ tool[r].out = ExpectedRgb
              /\ tool[r].out \notin DOMAIN files
        /\ pc[r] = "filled" =>
              /\ filled_dem[r] = ExpectedFilled
              /\ filled_dem[r] \in DOMAIN files
              /\ madeBy[filled_dem[r]] = r
        /\ pc[r] = "rgbified" =>
              /\ rgbified_dem[r] = ExpectedRgb
              /\ rgbified_dem[r] \in DOMAIN files
              /\ madeBy[rgbified_dem[r]] = r

\* C5 witness: the second run's rgbify has returned, and both intermediates
\* were there, left by the first run, when the second started.
C5_Witness ==
    /\ pc[2] = "rgbified"
    /\ ExpectedFilled \in DOMAIN snap.files
    /\ ExpectedRgb \in DOMAIN snap.files

\* The path of a PNG with only its extension changed to .webp.
SwapExt(p) == SubSeq(p, 1, Len(p) - Len(DotPng)) \o DotWebp

\* C6: after png2webp has completed, every PNG that glob found has its
\* re-encoding at the same path with only the extension changed; the PNG is
\* gone with removePNG and is still there, unchanged, without it.
C6_WebpBesidePng ==
    \A r \in Runs :
        (Latest(r) /\ pc[r] = "done" /\ args.webp) =>
            \A p \in found[r] :
                /\ SwapExt(p) \in DOMAIN files
                /\ madeBy[SwapExt(p)] = r
                /\ args.remove_png => p \notin DOMAIN files
                /\ ~args.remove_png =>
                      p \in DOMAIN files /\ files[SwapExt(p)] = WebpOf(files[p])

\* C7: when the second run of the same command line has ended, the files and
\* the directories are those the first run left.
C7_SecondRunSameState ==
    pc[2] \in {"done", "failed"} => files = snap.files /\ dirs = snap.dirs

\* C9: when png2webp raises on a tile, the tiles after it in the order of
\* discovery are untouched (the PNG is there, no WebP was written for it by
\* this run), the tiles before it stay converted (the WebP this run wrote is
\* there, and the PNG is gone exactly with removePNG), and the PNG of the
\* failing tile is still there.
C9_AbortKeepsPartialResult ==
    \A r \in Runs :
        (Latest(r) /\ RaisedInLoop(r)) =>
            /\ Head(queue[r]) \in DOMAIN files
            /\ madeBy[Head(queue[r])] = r
            /\ \A i \in 2..Len(queue[r]) :
                  /\ queue[r][i] \in DOMAIN files
                  /\ madeBy[queue[r][i]] = r
                  /\ WebpName(queue[r][i]) \in DOMAIN files => madeBy[WebpName(queue[r][i])] # r
            /\ \A p \in Earlier(r) :
                  /\ WebpName(p) \in DOMAIN files
                  /\ madeBy[WebpName(p)] = r
                  /\ (p \notin DOMAIN files) = args.remove_png

\* C9 witness: png2webp raised on the second of three tiles, with removePNG.
C9_Witness ==
    \E r \in Runs :
        /\ Latest(r)
        /\ RaisedInLoop(r)
        /\ args.remove_png
        /\ Earlier(r) # {}
        /\ Len(queue[r]) > 1

\* C10: with two runs at once, a tool of a run finds its input missing, or a
\* run that has tiled without removing PNGs misses a tile, only because a
\* step of the other run removed the file.
C10_LossIsByTheOtherRun ==
    \A r \in Runs :
        /\ (pc[r] \in {"rgb_tool", "tiles_tool"} /\ tool[r].in \notin DOMAIN files) =>
              /\ tool[r].in \in DOMAIN removedBy
              /\ removedBy[tool[r].in].by = Other(r)
        /\ (pc[r] \in {"tiled", "done"} /\ ~args.remove_png) =>
              \A i \in 1..MaxTiles :
                  TilePath(args.dist, i) \notin DOMAIN files =>
                      /\ TilePath(args.dist, i) \in DOMAIN removedBy
                      /\ removedBy[TilePath(args.dist, i)].by = Other(r)

\* C10 witness: rio of one run is running on a file that the run itself had
\* produced and that the other run's fill_nodata has removed.
C10_Witness ==
    \E r \in Runs :
        /\ pc[r] = "rgb_tool"
        /\ tool[r].in \notin DOMAIN files
        /\ tool[r].in \in DOMAIN removedBy
        /\ removedBy[tool[r].in] = [by |-> Other(r), made |-> r]

\* The position of a line among those written to the socket; 0: not written.
LineAt(l) ==
    IF \E i \in 1..Len(wire) : wire[i] = l
    THEN CHOOSE i \in 1..Len(wire) : wire[i] = l /\ \A j \in 1..(i - 1) : wire[j] # l
    ELSE 0

\* C8: whatever has been written to the socket for a request is a status
\* line and a header block that holds both CORS headers before the blank
\* line that ends it; and a response has been written once the headers ended.
C8_CorsOnEveryResponse ==
    /\ hpc \in {"body", "idle"} /\ hreq.method # "none" => wire # <<>>
    /\ wire # <<>> =>
          /\ LineAt(BlankLine) = Len(wire)
          /\ 0 < LineAt(AllowOrigin) /\ LineAt(AllowOrigin) < LineAt(BlankLine)
          /\ 0 < LineAt(AllowMethods) /\ LineAt(AllowMethods) < LineAt(BlankLine)

\* C8 witness: the header block of a 404 has been written, for a request that
\* is not the server's first.
C8_Witness ==
    /\ nreq > 0
    /\ hpc = "body"
    /\ wire[1] = "HTTP/1.0 404"

====
